---------------------------- MODULE Spec2Model ----------------------------
(***************************************************************************)
(* A model of universal_db_backup: the retention engine of backup.py       *)
(* (rotate_folders, rotate_files), the backup run of backup.py and the     *)
(* restore entry point of restore.py.                                      *)
(*                                                                         *)
(* Three specifications share the module:                                  *)
(*   SpecRotate   the two rotate functions applied to bounded directories  *)
(*   SpecBackup   sequential backup runs over one artifact tree            *)
(*   SpecRestore  one invocation of restore.py                             *)
(***************************************************************************)
EXTENDS Integers, Sequences, FiniteSets, TLC

\* ------------------------------------------------------------------ bounds
\* Number of distinct entry names in a directory given to rotate.
MaxEntries == 3
\* Modification times of those entries are drawn from 1..MaxMtime.
MaxMtime == 3
\* Largest retention count tried (the smallest is MinRetention).
MaxRetention == 3
\* Number of rotate calls made on one directory.
MaxCalls == 2

\* Retention counts are drawn from -MaxNegRetention..MaxRetention: the
\* configuration value is not validated (backup.py line 15), so it may be
\* zero or negative.
MaxNegRetention == 2
MinRetention == 0 - MaxNegRetention

\* Backup runs made one after the other on the same artifact tree.
MaxRuns == 4
\* Artifacts of earlier runs already present when the first run starts.
MaxOld == 2

VARIABLES
    RETENTION,   \* backup.py:15  config["backup"].get("retention", 10)
    base,        \* SpecRotate: the entries of the directory given to rotate
    calls,       \* SpecRotate: one record per rotate call made so far
    config,      \* backup.py:11-12  the loaded configuration
    TIMESTAMP,   \* backup.py:16  the run's timestamp
    fs,          \* the artifact tree: fs[engine][instance] is a set of entries
    fs0,         \* the artifact tree before the first run (never changes)
    pc,          \* the backup run's position
    databases,   \* the local `databases` of the instance being backed up
    log,         \* this run's tool invocations, rotations and final line
    errorAt,     \* Len(log) when this run's first error happened, 0: none
    exitStatus,  \* the process's exit status once pc.at = "exit"
    stamps,      \* the TIMESTAMP of every run so far, in order
    argv,        \* restore.py: sys.argv
    sections,    \* restore.py: the engines the configuration has a section for
    rpc,         \* restore.py: the invocation's position
    cmds,        \* restore.py: the external commands run so far, in order
    found,       \* ensure_postgres_db: whether the query found the database
    rerror,      \* restore.py: the error that ended the invocation, or "none"
    rexit        \* restore.py: the exit status once rpc = "exit"

rotVars == <<base, calls>>
bakVars == <<config, TIMESTAMP, fs, fs0, pc, databases, log, errorAt,
             exitStatus, stamps>>
resVars == <<argv, sections, rpc, cmds, found, rerror, rexit>>
vars == <<RETENTION, rotVars, bakVars, resVars>>

\* ------------------------------------------------------- retention engine

Min(S) == CHOOSE x \in S : \A y \in S : x <= y

\* sorted([...], key=lambda p: p.stat().st_mtime): Path.iterdir yields the
\* entries in arbitrary order and sorted is stable, so the result is any
\* ordering of S that is ascending in mtime.
RECURSIVE SortedByMtime(_)
SortedByMtime(S) ==
    IF S = {} THEN {<<>>}
    ELSE LET m == Min({e.mtime : e \in S})
         IN UNION { { <<e>> \o s : s \in SortedByMtime(S \ {e}) }
                    : e \in {x \in S : x.mtime = m} }

\* p.is_dir() / p.is_file() filters of the two listings.
IsDir(p) == p.kind = "dir"
IsFile(p) == p.kind = "file"

\* The loop condition with the comparison off by one.
LoopConditionGE(n, keep) == n >= keep

\* while len(folders) > RETENTION
LoopCondition(n, keep) == n > keep

\* The loop popping the newest entry, xs.pop(), instead of the oldest.
RECURSIVE PopNewestWhileOver(_, _, _)
PopNewestWhileOver(xs, deleted, keep) ==
    IF LoopCondition(Len(xs), keep)
    THEN IF xs = <<>>
         THEN [kept |-> xs, deleted |-> deleted, error |-> "IndexError"]
         ELSE PopNewestWhileOver(SubSeq(xs, 1, Len(xs) - 1),
                                 Append(deleted, xs[Len(xs)]), keep)
    ELSE [kept |-> xs, deleted |-> deleted, error |-> "none"]

\* An `if` in place of the `while`: at most one entry goes per call.
PopOnceIfOver(xs, deleted, keep) ==
    IF LoopCondition(Len(xs), keep) /\ xs # <<>>
    THEN [kept |-> Tail(xs), deleted |-> Append(deleted, Head(xs)),
          error |-> "none"]
    ELSE [kept |-> xs, deleted |-> deleted, error |-> "none"]

\* while len(xs) > RETENTION: old = xs.pop(0); delete(old)
\* list.pop(0) on an empty list raises IndexError, which nothing catches.
RECURSIVE PopWhileOver(_, _, _)
PopWhileOver(xs, deleted, keep) ==
    IF LoopCondition(Len(xs), keep)
    THEN IF xs = <<>>
         THEN [kept |-> xs, deleted |-> deleted, error |-> "IndexError"]
         ELSE PopWhileOver(Tail(xs), Append(deleted, Head(xs)), keep)
    ELSE [kept |-> xs, deleted |-> deleted, error |-> "none"]

Range(s) == {s[i] : i \in 1..Len(s)}

\* rotate_folders(base) with the sorted listing `folders` already taken.
rotate_folders(folders, keep) == PopWhileOver(folders, <<>>, keep)

\* rotate_files(base) with the sorted listing `files` already taken.
rotate_files(files, keep) == PopWhileOver(files, <<>>, keep)

\* A listing of every entry, whatever its kind.
UnfilteredListing(dir) == dir

\* The listings the two functions sort.
FolderListing(dir) == {p \in dir : IsDir(p)}
FileListing(dir) == {p \in dir : IsFile(p)}

\* ---------------------------------------------------------------- SpecRotate

Kinds == {"dir", "file"}

\* Every directory content of up to MaxEntries entries.  An entry's name only
\* tells it from the others (the order in which iterdir yields the entries
\* is chosen in SortedByMtime), so the names 1..n are given in ascending
\* order of (mtime, kind) and each content is drawn once.
EntryKey(x) == 2 * x.mtime + (IF x.kind = "file" THEN 1 ELSE 0)

Directories ==
    UNION { { {[name |-> i, kind |-> f[i].kind, mtime |-> f[i].mtime]
               : i \in 1..n}
              : f \in {g \in [1..n -> [kind : Kinds, mtime : 1..MaxMtime]] :
                         \A i \in 1..n, j \in 1..n :
                            i < j => EntryKey(g[i]) <= EntryKey(g[j])} }
            : n \in 0..MaxEntries }

\* The variables of the backup run, unused by the rotate specification.
BackupIdle ==
    /\ config = [enabled |-> {}, databases |-> <<>>]
    /\ TIMESTAMP = 0
    /\ fs = <<>>
    /\ fs0 = <<>>
    /\ pc = [at |-> "exit", e |-> 0, i |-> 0, d |-> 0]
    /\ databases = <<>>
    /\ log = <<>>
    /\ errorAt = 0
    /\ exitStatus = 0
    /\ stamps = <<>>

\* The variables of restore.py, unused by the other specifications.
RestoreIdle ==
    /\ argv = <<>>
    /\ sections = {}
    /\ rpc = "exit"
    /\ cmds = <<>>
    /\ found = FALSE
    /\ rerror = "none"
    /\ rexit = 0

InitRotate ==
    /\ RETENTION \in MinRetention..MaxRetention
    /\ base \in Directories
    /\ calls = <<>>
    /\ BackupIdle
    /\ RestoreIdle

\* One call of rotate_folders(base).
RotateFoldersCall ==
    /\ Len(calls) < MaxCalls
    /\ \E folders \in SortedByMtime(FolderListing(base)) :
         LET r == rotate_folders(folders, RETENTION)
         IN /\ base' = base \ Range(r.deleted)
            /\ calls' = Append(calls, [op |-> "folders", before |-> base,
                                       listed |-> folders, keep |-> RETENTION,
                                       deleted |-> r.deleted, kept |-> r.kept,
                                       error |-> r.error])
    /\ UNCHANGED <<RETENTION, bakVars, resVars>>

\* One call of rotate_files(base).
RotateFilesCall ==
    /\ Len(calls) < MaxCalls
    /\ \E files \in SortedByMtime(FileListing(base)) :
         LET r == rotate_files(files, RETENTION)
         IN /\ base' = base \ Range(r.deleted)
            /\ calls' = Append(calls, [op |-> "files", before |-> base,
                                       listed |-> files, keep |-> RETENTION,
                                       deleted |-> r.deleted, kept |-> r.kept,
                                       error |-> r.error])
    /\ UNCHANGED <<RETENTION, bakVars, resVars>>

NextRotate == RotateFoldersCall \/ RotateFilesCall

SpecRotate == InitRotate /\ [][NextRotate]_vars

\* ------------------------------------------------------ claims on rotate

DistinctMtimes(xs) ==
    \A i, j \in 1..Len(xs) : i # j => xs[i].mtime # xs[j].mtime

\* C1: for N listed entries with pairwise distinct modification times and a
\* retention count K with 0 <= K < N, one rotate call deletes exactly N-K
\* entries, each strictly older than every retained entry; with K >= N it
\* deletes nothing.  The call removes from the directory exactly the entries
\* it deleted, all of them entries it listed.
C1_RotateDeletesOldest ==
    \A i \in 1..Len(calls) :
        LET c == calls[i]
            N == Len(c.listed)
            K == c.keep
            after == IF i < Len(calls) THEN calls[i + 1].before ELSE base
        IN (DistinctMtimes(c.listed) /\ K >= 0) =>
             /\ (K < N => /\ Len(c.deleted) = N - K
                          /\ \A d \in Range(c.deleted), k \in Range(c.kept) :
                                d.mtime < k.mtime)
             /\ (K >= N => c.deleted = <<>>)
             /\ Range(c.deleted) \subseteq Range(c.listed)
             /\ Range(c.kept) = Range(c.listed) \ Range(c.deleted)
             /\ after = c.before \ Range(c.deleted)

\* A call that listed three entries with distinct times and kept one.
C1_Witness ==
    \E i \in 1..Len(calls) :
        /\ DistinctMtimes(calls[i].listed)
        /\ Len(calls[i].listed) = 3
        /\ calls[i].keep = 1
        /\ Len(calls[i].deleted) = 2

\* C8: for every retention count keep <= 0 and every listing, rotate removes
\* all listed entries and then completes normally, raising no error.
C8_NonPositiveKeepRemovesAll ==
    \A i \in 1..Len(calls) :
        calls[i].keep <= 0 =>
            /\ Range(calls[i].deleted) = Range(calls[i].listed)
            /\ calls[i].error = "none"

\* C9: rotate is idempotent: a later call of the same rotate function with
\* the same retention count on the directory the earlier call left deletes
\* nothing.
C9_RotateIdempotent ==
    \A i, j \in 1..Len(calls) :
        (i < j /\ calls[i].op = calls[j].op) => calls[j].deleted = <<>>

\* A first call that deleted something, followed by a second call of the
\* same function.
C9_Witness ==
    /\ Len(calls) >= 2
    /\ calls[1].op = calls[2].op
    /\ calls[1].deleted # <<>>
    /\ calls[1].kept # <<>>

\* ------------------------------------------------------------ backup run

\* backup.py:268-271: the order in which main runs the engines.
EngineOrder == <<"sqlite", "mysql", "postgresql", "mssql">>
Engines == Range(EngineOrder)
Grouped == {"mysql", "postgresql", "mssql"}

\* config[engine]["instances"]: the instance names, the same for every engine.
Instances == <<"app", "aux">>

\* What each engine's catalog query prints, one database per line.
Catalog(e) ==
    CASE e = "mysql" -> <<"information_schema", "orders", "mysql", "users">>
      [] e = "postgresql" -> <<"postgres", "orders">>
      [] e = "mssql" -> <<"orders", "", "users">>
      [] OTHER -> <<>>

\* get_mysql_databases: the listing without the four system databases.
get_mysql_databases(result) ==
    LET NotSystem(d) ==
            d \notin {"information_schema", "mysql", "performance_schema", "sys"}
    IN SelectSeq(result, NotSystem)

\* get_postgres_databases: result.splitlines(), unfiltered.
get_postgres_databases(result) == result

\* get_mssql_databases: the non-blank lines.
get_mssql_databases(result) ==
    LET NonBlank(d) == d # ""
    IN SelectSeq(result, NonBlank)

Enumerated(e) ==
    CASE e = "mysql" -> get_mysql_databases(Catalog(e))
      [] e = "postgresql" -> get_postgres_databases(Catalog(e))
      [] e = "mssql" -> get_mssql_databases(Catalog(e))
      [] OTHER -> <<>>

\* The artifact's extension per engine.
Ext(e) ==
    CASE e = "sqlite" -> ".sql.gz"
      [] e = "mysql" -> ".sql.gz"
      [] e = "postgresql" -> ".dump"
      [] e = "mssql" -> ".bak"

\* Entry names are triples <<stem, timestamp, extension>>.
\* backup.py:58  inst_dir / f"{inst['name']}_{TIMESTAMP}.sql.gz"
SqliteFileName(inst, t) == <<inst, t, ".sql.gz">>

\* backup.py:85  inst_dir / TIMESTAMP
TsDirName(t) == <<"", t, "">>

\* Whether a non-zero exit of the engine's dump tool raises: pg_dump and
\* sqlcmd run under subprocess.run(check=True); sqlite3 and mysqldump run
\* under Popen followed by dump.wait(), whose return code is dropped.
ChecksExit(e) == e \in {"postgresql", "mssql"}

\* Whether the artifact file exists after the dump: gzip.open and open
\* create it before the tool writes; the MSSQL server writes it itself.
FileMade(e, ok) == IF e = "mssql" THEN ok ELSE TRUE

AtExit == [at |-> "exit", e |-> 0, i |-> 0, d |-> 0]

\* Where the run goes after the last instance of engine number e.
AfterEngine(e) ==
    IF e < Len(EngineOrder)
    THEN [at |-> "engine", e |-> e + 1, i |-> 0, d |-> 0]
    ELSE [at |-> "success", e |-> 0, i |-> 0, d |-> 0]

\* Where the run goes after instance i of engine number e is rotated.
AfterInstance(e, i) ==
    IF i < Len(Instances)
    THEN [at |-> "instance", e |-> e, i |-> i + 1, d |-> 0]
    ELSE AfterEngine(e)

\* Where the run goes once `dbs` are resolved or database d is dumped.
AfterDatabase(e, i, d, dbs) ==
    IF d < Len(dbs)
    THEN [at |-> "db", e |-> e, i |-> i, d |-> d + 1]
    ELSE [at |-> "rotate", e |-> e, i |-> i, d |-> 0]

\* An uncaught exception: the interpreter prints it and exits with status 1.
Abort ==
    /\ pc' = AtExit
    /\ exitStatus' = 1

\* errorAt after an event was appended to the log: the first error stays.
NoteError(failed) ==
    errorAt' = IF failed /\ errorAt = 0 THEN Len(log) + 1 ELSE errorAt

\* ensure_dir(ts_dir): mkdir(parents=True, exist_ok=True).
ensure_dir(dir, name, now) ==
    IF \E p \in dir : p.name = name
    THEN dir
    ELSE dir \cup {[name |-> name, kind |-> "dir", mtime |-> now, files |-> {}]}

\* Modification times: runs are sequential processes, so whatever a run
\* writes is stamped later than what earlier runs wrote; an entry written by
\* a run carries the run's TIMESTAMP as its modification time.

\* A file created (or truncated) directly in an instance directory.
WriteFile(dir, name, now) ==
    {p \in dir : p.name # name}
        \cup {[name |-> name, kind |-> "file", mtime |-> now, files |-> {}]}

\* A file created inside the directory entry `name`: the entry's own
\* modification time changes with it.
WriteInto(dir, name, file, now) ==
    {IF p.name = name /\ p.kind = "dir"
     THEN [p EXCEPT !.files = @ \cup {file}, !.mtime = now]
     ELSE p : p \in dir}

\* The artifact trees a run may find: in every instance directory up to
\* MaxOld artifacts of earlier runs (stamped before the first run), and
\* possibly one foreign entry, older than all: a plain file beside the
\* timestamp directories, a directory beside the SQLite files.
OldEntries(e, inst, nOld, stray) ==
    { IF e = "sqlite"
      THEN [name |-> SqliteFileName(inst, t), kind |-> "file", mtime |-> t,
            files |-> {}]
      ELSE [name |-> TsDirName(t), kind |-> "dir", mtime |-> t,
            files |-> {<<"orders", Ext(e)>>}]
      : t \in (MaxOld - nOld + 1)..MaxOld }
    \cup (IF stray
          THEN {[name |-> <<"lost+found", 0, "">>,
                 kind |-> IF e = "sqlite" THEN "dir" ELSE "file",
                 mtime |-> 0, files |-> {}]}
          ELSE {})

InitTree(nOld, stray) ==
    [e \in Engines |->
        [inst \in Range(Instances) |-> OldEntries(e, inst, nOld, stray)]]

FirstStamp == MaxOld + 1

\* The state once backup.py's module body has run (lines 9-16).
InitRun(enabledSets) ==
    /\ RETENTION \in MinRetention..MaxRetention
    /\ \E en \in enabledSets, dbl \in {<<>>, <<"orders", "users">>} :
          config = [enabled |-> en, databases |-> dbl]
    /\ TIMESTAMP = FirstStamp
    /\ \E nOld \in 0..MaxOld, stray \in BOOLEAN :
          /\ fs = InitTree(nOld, stray)
          /\ fs0 = InitTree(nOld, stray)
    /\ pc = [at |-> "engine", e |-> 1, i |-> 0, d |-> 0]
    /\ databases = <<>>
    /\ log = <<>>
    /\ errorAt = 0
    /\ exitStatus = 0
    /\ stamps = <<FirstStamp>>
    /\ base = {}
    /\ calls = <<>>
    /\ RestoreIdle

InitBackup == InitRun(SUBSET Engines)

\* backup_<engine>(): `if not config.get(engine, {}).get("enabled"): return`,
\* else ensure_dir(base) and the loop over the instances.
EnterEngine ==
    /\ pc.at = "engine"
    /\ \/ /\ EngineOrder[pc.e] \notin config.enabled
          /\ pc' = AfterEngine(pc.e)
       \/ /\ EngineOrder[pc.e] \in config.enabled
          /\ pc' = [at |-> "instance", e |-> pc.e, i |-> 1, d |-> 0]
    /\ UNCHANGED <<RETENTION, rotVars, resVars, config, TIMESTAMP, fs, fs0, databases,
                   log, errorAt, exitStatus, stamps>>

\* backup_sqlite, lines 53-60: ensure_dir(inst_dir) and the output name.
BeginSqliteInstance ==
    /\ pc.at = "instance"
    /\ EngineOrder[pc.e] = "sqlite"
    /\ pc' = [pc EXCEPT !.at = "dump"]
    /\ UNCHANGED <<RETENTION, rotVars, resVars, config, TIMESTAMP, fs, fs0, databases,
                   log, errorAt, exitStatus, stamps>>

\* backup_sqlite, lines 62-70: sqlite3 .dump piped into the gzip file; the
\* tool's exit status is waited for and dropped.
DumpSqlite ==
    /\ pc.at = "dump"
    /\ LET e == EngineOrder[pc.e]
           inst == Instances[pc.i]
       IN \E ok \in BOOLEAN :
            /\ fs' = [fs EXCEPT ![e][inst] =
                        WriteFile(@, SqliteFileName(inst, TIMESTAMP), TIMESTAMP)]
            /\ log' = Append(log, [ev |-> "backup", engine |-> e,
                                   inst |-> inst, db |-> inst, made |-> TRUE])
            /\ NoteError(~ok)
            /\ IF ~ok /\ ChecksExit(e)
               THEN Abort
               ELSE /\ pc' = [pc EXCEPT !.at = "rotate"]
                    /\ UNCHANGED exitStatus
    /\ UNCHANGED <<RETENTION, rotVars, resVars, config, TIMESTAMP, fs0, databases,
                   stamps>>

\* backup_mysql lines 82-90 (and the same lines of backup_postgresql and
\* backup_mssql): the instance and timestamp directories, then
\* `inst.get("databases") or get_<engine>_databases(inst, image)`: an
\* absent or empty list is enumerated.
BeginGroupedInstance ==
    /\ pc.at = "instance"
    /\ EngineOrder[pc.e] \in Grouped
    /\ LET e == EngineOrder[pc.e]
           inst == Instances[pc.i]
       IN fs' = [fs EXCEPT ![e][inst] = ensure_dir(@, TsDirName(TIMESTAMP), TIMESTAMP)]
    /\ IF config.databases # <<>>
       THEN /\ databases' = config.databases
            /\ pc' = AfterDatabase(pc.e, pc.i, 0, config.databases)
       ELSE /\ databases' = <<>>
            /\ pc' = [pc EXCEPT !.at = "enumerate"]
    /\ UNCHANGED <<RETENTION, rotVars, resVars, config, TIMESTAMP, fs0, log, errorAt,
                   exitStatus, stamps>>

\* get_mysql_databases / get_postgres_databases / get_mssql_databases:
\* subprocess.check_output raises when the catalog query exits non-zero.
EnumerateDatabases ==
    /\ pc.at = "enumerate"
    /\ LET e == EngineOrder[pc.e]
           inst == Instances[pc.i]
       IN \E ok \in BOOLEAN :
            /\ log' = Append(log, [ev |-> "enumerate", engine |-> e,
                                   inst |-> inst, db |-> "", made |-> FALSE])
            /\ NoteError(~ok)
            /\ IF ok
               THEN /\ databases' = Enumerated(e)
                    /\ pc' = AfterDatabase(pc.e, pc.i, 0, Enumerated(e))
                    /\ UNCHANGED exitStatus
               ELSE /\ Abort
                    /\ UNCHANGED databases
    /\ UNCHANGED <<RETENTION, rotVars, resVars, config, TIMESTAMP, fs, fs0, stamps>>

\* The body of `for db in databases`: one dump into ts_dir/<db><ext>.
DumpDatabase ==
    /\ pc.at = "db"
    /\ LET e == EngineOrder[pc.e]
           inst == Instances[pc.i]
           db == databases[pc.d]
       IN \E ok \in BOOLEAN :
            /\ fs' = IF FileMade(e, ok)
                     THEN [fs EXCEPT ![e][inst] =
                             WriteInto(@, TsDirName(TIMESTAMP), <<db, Ext(e)>>,
                                       TIMESTAMP)]
                     ELSE fs
            /\ log' = Append(log, [ev |-> "backup", engine |-> e,
                                   inst |-> inst, db |-> db,
                                   made |-> FileMade(e, ok)])
            /\ NoteError(~ok)
            /\ IF ~ok /\ ChecksExit(e)
               THEN Abort
               ELSE /\ pc' = AfterDatabase(pc.e, pc.i, pc.d, databases)
                    /\ UNCHANGED exitStatus
    /\ UNCHANGED <<RETENTION, rotVars, resVars, config, TIMESTAMP, fs0, databases,
                   stamps>>

\* rotate_files(inst_dir) for SQLite (line 72), rotate_folders(inst_dir) for
\* the grouped engines (lines 123, 187, 251).
RotateInstance ==
    /\ pc.at = "rotate"
    /\ LET e == EngineOrder[pc.e]
           inst == Instances[pc.i]
           dir == fs[e][inst]
           listing == IF e = "sqlite" THEN FileListing(dir)
                      ELSE FolderListing(dir)
       IN \E listed \in SortedByMtime(listing) :
            LET r == IF e = "sqlite" THEN rotate_files(listed, RETENTION)
                     ELSE rotate_folders(listed, RETENTION)
            IN /\ fs' = [fs EXCEPT ![e][inst] = dir \ Range(r.deleted)]
               /\ log' = Append(log, [ev |-> "rotate", engine |-> e,
                                      inst |-> inst, db |-> "",
                                      made |-> FALSE])
               /\ NoteError(r.error # "none")
               /\ IF r.error # "none"
                  THEN Abort
                  ELSE /\ pc' = AfterInstance(pc.e, pc.i)
                       /\ UNCHANGED exitStatus
    /\ UNCHANGED <<RETENTION, rotVars, resVars, config, TIMESTAMP, fs0, databases,
                   stamps>>

\* backup.py:272: print("All database backups completed successfully").
Finish ==
    /\ pc.at = "success"
    /\ log' = Append(log, [ev |-> "success", engine |-> "", inst |-> "",
                           db |-> "", made |-> FALSE])
    /\ pc' = AtExit
    /\ exitStatus' = 0
    /\ UNCHANGED <<RETENTION, rotVars, resVars, config, TIMESTAMP, fs, fs0, databases,
                   errorAt, stamps>>

NextBackup ==
    \/ EnterEngine
    \/ BeginSqliteInstance
    \/ DumpSqlite
    \/ BeginGroupedInstance
    \/ EnumerateDatabases
    \/ DumpDatabase
    \/ RotateInstance
    \/ Finish

SpecBackup == InitBackup /\ [][NextBackup]_vars

\* --------------------------------------------------- repeated SQLite runs

\* Runs of a configuration whose only enabled engine, if any, is SQLite.
InitSqliteRuns == InitRun({{}, {"sqlite"}})

\* The next invocation of backup.py, started once the previous process has
\* exited: the module body runs again and TIMESTAMP is strictly later.
StartRun ==
    /\ pc.at = "exit"
    /\ Len(stamps) < MaxRuns
    /\ TIMESTAMP' = TIMESTAMP + 1
    /\ stamps' = Append(stamps, TIMESTAMP + 1)
    /\ pc' = [at |-> "engine", e |-> 1, i |-> 0, d |-> 0]
    /\ databases' = <<>>
    /\ log' = <<>>
    /\ errorAt' = 0
    /\ exitStatus' = 0
    /\ UNCHANGED <<RETENTION, rotVars, resVars, config, fs, fs0>>

NextSqliteRuns ==
    \/ StartRun
    \/ EnterEngine
    \/ BeginSqliteInstance
    \/ DumpSqlite
    \/ RotateInstance
    \/ Finish

SpecSqliteRuns == InitSqliteRuns /\ [][NextSqliteRuns]_vars

\* ------------------------------------------------- claims on the backup run

MinOf(a, b) == IF a < b THEN a ELSE b
MaxOf(a, b) == IF a > b THEN a ELSE b

\* C2: any error during a backup run, a dump tool's non-zero exit included,
\* aborts the run at once: the log grows no further after the failing
\* invocation (no further backup, rotation or success line) and the run has
\* ended with a non-zero exit status.
C2_AnyErrorAborts ==
    errorAt > 0 =>
        /\ pc.at = "exit"
        /\ exitStatus # 0
        /\ Len(log) = errorAt

\* C7: with SQLite enabled, a retention count N >= 1 and an instance
\* directory that was empty before the first run, after R finished runs the
\* directory holds exactly min(R, N) files, those of the min(R, N) most
\* recent runs.
C7_SqliteKeepsNewest ==
    (pc.at = "exit" /\ "sqlite" \in config.enabled /\ RETENTION >= 1) =>
        \A inst \in Range(Instances) :
            fs0["sqlite"][inst] = {} =>
                LET R == Len(stamps)
                    n == MinOf(R, RETENTION)
                    files == {p \in fs["sqlite"][inst] : p.kind = "file"}
                IN /\ Cardinality(files) = n
                   /\ {p.name : p \in files}
                        = {SqliteFileName(inst, stamps[k]) : k \in (R - n + 1)..R}
                   /\ \A k \in 1..(R - n) :
                        \A p \in fs["sqlite"][inst] :
                            p.name # SqliteFileName(inst, stamps[k])

\* Four runs with retention 3: the first run's file is gone.
C7_Witness ==
    /\ pc.at = "exit"
    /\ "sqlite" \in config.enabled
    /\ RETENTION = 3
    /\ Len(stamps) = 4
    /\ fs0["sqlite"]["app"] = {}
    /\ Cardinality(fs["sqlite"]["app"]) = 3
    /\ \A p \in fs["sqlite"]["app"] : p.name # SqliteFileName("app", stamps[1])

RotateEvents(e, inst) ==
    {j \in 1..Len(log) :
        log[j].ev = "rotate" /\ log[j].engine = e /\ log[j].inst = inst}

BackupEvents(e, inst) ==
    {j \in 1..Len(log) :
        log[j].ev = "backup" /\ log[j].engine = e /\ log[j].inst = inst}

\* The databases the instance's loop runs over.
Resolved(e) ==
    IF config.databases # <<>> THEN config.databases ELSE Enumerated(e)

HasName(dir, name) == \E p \in dir : p.name = name
DirsIn(dir) == {p \in dir : p.kind = "dir"}
FilesIn(dir) == {p \in dir : p.kind = "file"}

\* C10: for the grouped engines an instance is rotated at most once in a
\* run, only after each of its databases was backed up, and exactly once in
\* a run that completes; rotation removes whole timestamp directories only:
\* a plain file in the instance directory is never removed nor counted, an
\* earlier timestamp directory is either gone or intact, and this run's
\* directory, while it exists, holds every artifact written into it.  For
\* SQLite, rotation counts and removes files only.
C10_RotationUnit ==
    /\ \A e \in Grouped, inst \in Range(Instances) :
        /\ Cardinality(RotateEvents(e, inst)) <= 1
        /\ \A j \in RotateEvents(e, inst) :
              /\ \A k \in BackupEvents(e, inst) : k < j
              /\ Cardinality(BackupEvents(e, inst)) = Len(Resolved(e))
              /\ {log[k].db : k \in BackupEvents(e, inst)} = Range(Resolved(e))
        /\ (pc.at = "exit" /\ exitStatus = 0 /\ e \in config.enabled)
              => Cardinality(RotateEvents(e, inst)) = 1
        /\ \A p \in fs0[e][inst] :
              /\ p.kind = "file" => p \in fs[e][inst]
              /\ p.kind = "dir" => (p \in fs[e][inst] \/ ~HasName(fs[e][inst], p.name))
        /\ \A k \in BackupEvents(e, inst) :
              log[k].made =>
                 \A p \in fs[e][inst] :
                    p.name = TsDirName(TIMESTAMP) => <<log[k].db, Ext(e)>> \in p.files
        /\ RotateEvents(e, inst) # {} =>
              Cardinality(DirsIn(fs[e][inst]))
                = MinOf(Cardinality(DirsIn(fs0[e][inst])) + 1,
                        MaxOf(RETENTION, 0))
    /\ \A inst \in Range(Instances) :
        /\ \A p \in fs0["sqlite"][inst] : p.kind = "dir" => p \in fs["sqlite"][inst]
        /\ RotateEvents("sqlite", inst) # {} =>
              Cardinality(FilesIn(fs["sqlite"][inst]))
                = MinOf(Cardinality(FilesIn(fs0["sqlite"][inst])) + 1,
                        MaxOf(RETENTION, 0))

\* A completed run that removed an earlier MySQL timestamp directory, kept
\* another one and left the plain file beside them in place.
C10_Witness ==
    /\ pc.at = "exit"
    /\ exitStatus = 0
    /\ "mysql" \in config.enabled
    /\ \E p \in fs0["mysql"]["app"] : IsFile(p) /\ p \in fs["mysql"]["app"]
    /\ \E p \in fs0["mysql"]["app"] :
          IsDir(p) /\ ~HasName(fs["mysql"]["app"], p.name)
    /\ \E p \in fs0["mysql"]["app"] : IsDir(p) /\ p \in fs["mysql"]["app"]
    /\ Cardinality(BackupEvents("mysql", "app")) = 2

\* ---------------------------------------------------------------- restore

\* Python's None for an absent database name; no argument equals it.
None == "<None>"

\* `not x` of an optional string: None and the empty string are falsy.
Falsy(x) == x = None \/ x = ""

RestoreEngines == {"mysql", "postgresql", "mssql", "mongodb", "sqlite"}

\* The command lines tried: the script name, then up to six arguments
\* <engine> <instance> <backup_file> <mode> <source_db> <target_db>, cut
\* after any of the last three.
CommandLines ==
    LET full == { <<"restore.py", t, i, "backup.file", m, s, d>> :
                    t \in RestoreEngines, i \in {"main", "ghost"},
                    m \in {"single", "all", "bogus"},
                    s \in {"-", "", "old_name"}, d \in {"-", "", "new_name"} }
    IN { SubSeq(a, 1, n) : a \in full, n \in 4..7 }

\* main, lines 326-331: the positional arguments (argv[0] is the script).
ArgType(a) == a[2]
ArgInstance(a) == a[3]
ArgMode(a) == a[5]
ArgSource(a) == IF a[6] # "-" THEN a[6] ELSE None
ArgTarget(a) == IF Len(a) > 6 /\ a[7] # "-" THEN a[7] ELSE None

\* find_instance: config[dbtype] raises KeyError without the section, and
\* a name that is no instance of it raises ValueError.  Every section has
\* the one instance "main".
find_instance(secs, dbtype, name) ==
    IF dbtype \notin secs THEN "KeyError"
    ELSE IF name # "main" THEN "ValueError: instance not found"
    ELSE "none"

\* main, lines 335-342: the if/elif chain over dbtype.
Dispatch(dbtype) ==
    IF dbtype \in {"mysql", "postgresql", "mssql"} THEN dbtype
    ELSE "ValueError: Unsupported database type"

\* A mode check that lets every mode through.
restore_mysql_anymode(mode, target_db) ==
    IF Falsy(target_db) THEN "ValueError: target_db required" ELSE "none"

\* restore_mysql, lines 36-40: the checks before the first command.
restore_mysql_checks(mode, target_db) ==
    IF mode # "single" THEN "RuntimeError: single-db only"
    ELSE IF Falsy(target_db) THEN "ValueError: target_db required"
    ELSE "none"

\* restore_mssql, lines 185-189.
restore_mssql_checks(mode, target_db) ==
    IF mode # "single" THEN "RuntimeError: single-db only"
    ELSE IF Falsy(target_db) THEN "ValueError: target_db required"
    ELSE "none"

\* restore_mongodb, lines 267-271.
restore_mongodb_checks(mode, target_db) ==
    IF mode # "single" THEN "RuntimeError: single-db only"
    ELSE IF Falsy(target_db) THEN "ValueError: target_db required"
    ELSE "none"

\* restore_mongodb, lines 283-284: --nsFrom "<source or target>.*" and
\* --nsTo "<target>.*".
MongoNamespaces(source_db, target_db) ==
    [nsFrom |-> <<IF Falsy(source_db) THEN target_db ELSE source_db, ".*">>,
     nsTo |-> <<target_db, ".*">>]

\* restore_postgresql, lines 115-117 and 157-158: the checks per mode.
restore_postgresql_checks(mode, source_db, target_db) ==
    IF mode = "single"
    THEN IF Falsy(source_db) \/ Falsy(target_db)
         THEN "ValueError: source_db and target_db required"
         ELSE "none"
    ELSE IF mode = "all" THEN "none"
    ELSE "ValueError: mode must be single or all"

\* A restore into the database the artifact was taken from.
PgRestoreIntoSource(source_db, target_db) == source_db

\* restore_postgresql, line 129: "-d", target_db.
PgRestoreDestination(source_db, target_db) == target_db

\* Where main's dispatch lands when nothing raised.
FirstStep(dbtype, mode) ==
    CASE dbtype = "mysql" -> "mysql_ensure"
      [] dbtype = "mssql" -> "mssql_prepare"
      [] dbtype = "postgresql" /\ mode = "single" -> "pg_exists"
      [] dbtype = "postgresql" /\ mode = "all" -> "pg_psql_all"

\* The error, if any, raised between main's entry and the first command.
EntryError(secs, a) ==
    LET f == find_instance(secs, ArgType(a), ArgInstance(a))
        d == Dispatch(ArgType(a))
    IN IF f # "none" THEN f
       ELSE IF d = "mysql"
            THEN restore_mysql_checks(ArgMode(a), ArgTarget(a))
       ELSE IF d = "mssql"
            THEN restore_mssql_checks(ArgMode(a), ArgTarget(a))
       ELSE IF d = "postgresql"
            THEN restore_postgresql_checks(ArgMode(a), ArgSource(a), ArgTarget(a))
       ELSE d

InitRestore ==
    /\ argv \in CommandLines
    /\ sections \in {RestoreEngines, RestoreEngines \ {"mongodb"}}
    /\ rpc = "main"
    /\ cmds = <<>>
    /\ found = FALSE
    /\ rerror = "none"
    /\ rexit = 0
    /\ RETENTION = 0
    /\ base = {}
    /\ calls = <<>>
    /\ BackupIdle

\* An uncaught exception (or sys.exit(1)): the invocation ends, status 1.
Raise(err) ==
    /\ rerror' = err
    /\ rexit' = 1
    /\ rpc' = "exit"

Cmd(tool, role, db, ok) == [tool |-> tool, role |-> role, db |-> db, ok |-> ok]

\* main, lines 316-342, up to the first external command.
Main ==
    /\ rpc = "main"
    /\ IF Len(argv) < 6
       THEN Raise("usage")
       ELSE IF EntryError(sections, argv) # "none"
            THEN Raise(EntryError(sections, argv))
            ELSE /\ rpc' = FirstStep(ArgType(argv), ArgMode(argv))
                 /\ UNCHANGED <<rerror, rexit>>
    /\ UNCHANGED <<RETENTION, rotVars, bakVars, argv, sections, cmds, found>>

\* One external command run to its end under check=True (or check_output):
\* a non-zero exit raises CalledProcessError, else the run goes on at `next`.
RunChecked(tool, role, db, next) ==
    \E ok \in BOOLEAN :
        /\ cmds' = Append(cmds, Cmd(tool, role, db, ok))
        /\ IF ok
           THEN /\ rpc' = next
                /\ UNCHANGED <<rerror, rexit>>
           ELSE Raise("CalledProcessError")

\* ensure_mysql_db(inst, target_db): CREATE DATABASE IF NOT EXISTS.
EnsureMysqlDb ==
    /\ rpc = "mysql_ensure"
    /\ RunChecked("mysql", "ensure", ArgTarget(argv), "mysql_restore")
    /\ UNCHANGED <<RETENTION, rotVars, bakVars, argv, sections, found>>

\* restore_mysql, lines 58-79: gunzip -c piped into the mysql client; the
\* client runs under check=True, then gunzip's return code is examined.
RestoreMysql ==
    /\ rpc = "mysql_restore"
    /\ \E ok \in BOOLEAN, gunzipOk \in BOOLEAN :
         /\ cmds' = Append(cmds, Cmd("mysql", "restore", ArgTarget(argv), ok))
         /\ IF ~ok THEN Raise("CalledProcessError")
            ELSE IF ~gunzipOk THEN Raise("RuntimeError: gunzip failed")
            ELSE /\ rpc' = "exit"
                 /\ UNCHANGED <<rerror, rexit>>
    /\ UNCHANGED <<RETENTION, rotVars, bakVars, argv, sections, found>>

\* ensure_postgres_db, lines 84-96: the existence query, under check_output.
PgExists ==
    /\ rpc = "pg_exists"
    /\ \E exists \in BOOLEAN :
         /\ found' = exists
         /\ RunChecked("psql", "ensure", ArgTarget(argv),
                       IF exists THEN "pg_restore" ELSE "pg_createdb")
    /\ UNCHANGED <<RETENTION, rotVars, bakVars, argv, sections>>

\* ensure_postgres_db, lines 98-110: createdb when the query found nothing.
PgCreateDb ==
    /\ rpc = "pg_createdb"
    /\ RunChecked("createdb", "ensure", ArgTarget(argv), "pg_restore")
    /\ UNCHANGED <<RETENTION, rotVars, bakVars, argv, sections, found>>

\* restore_postgresql, lines 121-138: pg_restore -d target_db --clean.
PgRestore ==
    /\ rpc = "pg_restore"
    /\ RunChecked("pg_restore", "restore",
                  PgRestoreDestination(ArgSource(argv), ArgTarget(argv)), "exit")
    /\ UNCHANGED <<RETENTION, rotVars, bakVars, argv, sections, found>>

\* restore_postgresql, lines 140-155: psql with no database selected.
PgPsqlAll ==
    /\ rpc = "pg_psql_all"
    /\ RunChecked("psql", "restore", None, "exit")
    /\ UNCHANGED <<RETENTION, rotVars, bakVars, argv, sections, found>>

\* restore_mssql, lines 194-211: drop and recreate the target database.
MssqlPrepare ==
    /\ rpc = "mssql_prepare"
    /\ RunChecked("sqlcmd", "ensure", ArgTarget(argv), "mssql_restore")
    /\ UNCHANGED <<RETENTION, rotVars, bakVars, argv, sections, found>>

\* restore_mssql, lines 213-235: RESTORE DATABASE ... WITH REPLACE.
MssqlRestore ==
    /\ rpc = "mssql_restore"
    /\ RunChecked("sqlcmd", "restore", ArgTarget(argv), "exit")
    /\ UNCHANGED <<RETENTION, rotVars, bakVars, argv, sections, found>>

NextRestore ==
    \/ Main
    \/ EnsureMysqlDb
    \/ RestoreMysql
    \/ PgExists
    \/ PgCreateDb
    \/ PgRestore
    \/ PgPsqlAll
    \/ MssqlPrepare
    \/ MssqlRestore

SpecRestore == InitRestore /\ [][NextRestore]_vars

\* --------------------------------------------------------- claims on restore

\* The (engine, mode) combinations with no restore: a mode other than
\* single for MySQL, MSSQL and MongoDB, a mode other than single or all for
\* PostgreSQL, and every mode of an engine without restore support.
Unsupported(dbtype, mode) ==
    \/ dbtype \in {"mysql", "mssql", "mongodb"} /\ mode # "single"
    \/ dbtype = "postgresql" /\ mode \notin {"single", "all"}
    \/ dbtype \notin {"mysql", "mssql", "mongodb", "postgresql"}

\* C3: a restore request whose (engine, mode) combination is unsupported
\* fails before any external command: no ensure_destination command and no
\* restore command is ever run, and the invocation ends in an error.
C3_UnsupportedModeRunsNothing ==
    (Len(argv) >= 6 /\ Unsupported(ArgType(argv), ArgMode(argv))) =>
        /\ cmds = <<>>
        /\ rpc \in {"main", "exit"}
        /\ (rpc = "exit" => rerror # "none" /\ rexit # 0)

\* `mysql main backup.file all - new_name` has ended in restore_mysql's
\* mode error.
C3_Witness ==
    /\ Len(argv) = 7
    /\ ArgType(argv) = "mysql"
    /\ ArgInstance(argv) = "main"
    /\ ArgMode(argv) = "all"
    /\ ArgTarget(argv) = "new_name"
    /\ rpc = "exit"
    /\ rerror = "RuntimeError: single-db only"
    /\ cmds = <<>>

\* `postgresql <instance> <artifact_path> all` with both database names
\* absent: left out of the command line, or given as "-".
PgAllRequest ==
    /\ Len(argv) >= 5
    /\ ArgType(argv) = "postgresql"
    /\ ArgInstance(argv) = "main"
    /\ ArgMode(argv) = "all"
    /\ Len(argv) >= 6 => argv[6] = "-"
    /\ Len(argv) >= 7 => argv[7] = "-"

\* C4: such an invocation is accepted: once it has ended it has streamed the
\* artifact into a psql session with no database selected, it ran no
\* ensure_destination command, and it did not stop at the usage text or for
\* lack of a target database.
C4_PgAllAccepted ==
    (PgAllRequest /\ rpc = "exit") =>
        /\ \E i \in 1..Len(cmds) :
              cmds[i].tool = "psql" /\ cmds[i].role = "restore"
                 /\ cmds[i].db = None
        /\ \A i \in 1..Len(cmds) : cmds[i].role # "ensure"
        /\ rerror \notin {"usage", "ValueError: target_db required",
                          "ValueError: source_db and target_db required"}

\* A MongoDB single-mode request with a target database, for a configured
\* instance.
MongoSingleRequest ==
    /\ Len(argv) = 7
    /\ ArgType(argv) = "mongodb"
    /\ "mongodb" \in sections
    /\ ArgInstance(argv) = "main"
    /\ ArgMode(argv) = "single"
    /\ ~Falsy(ArgTarget(argv))

\* C5: such a request is dispatched to the MongoDB adapter: it does not end
\* as an unsupported database type, and when it ends without error it has
\* run mongorestore with the namespaces of MongoNamespaces.
C5_MongoDispatched ==
    (MongoSingleRequest /\ rpc = "exit") =>
        /\ rerror # "ValueError: Unsupported database type"
        /\ rerror = "none" =>
              \E i \in 1..Len(cmds) :
                 /\ cmds[i].tool = "mongorestore"
                 /\ cmds[i].db
                      = MongoNamespaces(ArgSource(argv), ArgTarget(argv))

IsPgEnsure(c) == c.role = "ensure" /\ c.tool \in {"psql", "createdb"}

\* C6: in a PostgreSQL single-mode restore, pg_restore runs only after
\* ensure_destination ran for target_db and succeeded (the existence query,
\* and createdb when the query found nothing), pg_restore's -d is target_db,
\* and after a failed ensure_destination command no restore command runs.
C6_EnsureBeforePgRestore ==
    /\ \A j \in 1..Len(cmds) :
          cmds[j].tool = "pg_restore" =>
             /\ cmds[j].db = ArgTarget(argv)
             /\ ~Falsy(cmds[j].db)
             /\ \E i \in 1..(j - 1) :
                   /\ cmds[i] = Cmd("psql", "ensure", ArgTarget(argv), TRUE)
                   /\ found \/ \E k \in (i + 1)..(j - 1) :
                         cmds[k] = Cmd("createdb", "ensure", ArgTarget(argv), TRUE)
             /\ \A i \in 1..(j - 1) : cmds[i].ok
    /\ \A i \in 1..Len(cmds) :
          (IsPgEnsure(cmds[i]) /\ ~cmds[i].ok) =>
             /\ i = Len(cmds)
             /\ rpc = "exit"
             /\ rexit # 0

\* pg_restore into new_name from old_name has run, after createdb.
C6_Witness ==
    /\ Len(cmds) = 3
    /\ ArgSource(argv) = "old_name"
    /\ cmds[1] = Cmd("psql", "ensure", "new_name", TRUE)
    /\ cmds[2] = Cmd("createdb", "ensure", "new_name", TRUE)
    /\ cmds[3] = Cmd("pg_restore", "restore", "new_name", TRUE)

=============================================================================
